---- MODULE Spec2Model ----
(***************************************************************************)
(* Model of src/main.py: a Selenium scraper that walks a paginated list of *)
(* services, opens each record's detail form, harvests label/value pairs,  *)
(* clicks back, pages on, and finally cleans and saves the result set.     *)
(*                                                                         *)
(* The browser is the environment.  Its DOM is modelled by the view that   *)
(* is shown (search form, one listing page, one detail form) and by the    *)
(* outcome of every WebDriver call: success, a stale element reference, an *)
(* intercepted click, or any other exception.                              *)
(***************************************************************************)
EXTENDS Integers, Sequences, FiniteSets, TLC

(* ---------------------------------------------------------------- bounds *)

\* Largest number of detail triggers a modelled directory holds in total.
MaxSite == 3

\* Most transient faults (stale, intercepted, search field missing) per run.
MaxFaults == 2

\* Longest record sequence handed to clean_data in CleanSpec.
MaxClean == 2

\* Most label cells, and most data cells, of a detail form in ExtractSpec.
MaxCells == 2

(* ------------------------------------------------------- python values *)

\* A Python str is a sequence of characters; one-character strings stand
\* for the characters and "\n" for the line break.
Str(s) == [t |-> "str", v |-> s]

\* A Python list of str.
List(l) == [t |-> "list", v |-> l]

\* None (JSON null).
Null == [t |-> "null", v |-> <<>>]

SingleSpace == Str(<<" ">>)

Min(a, b) == IF a < b THEN a ELSE b

Range(s) == {s[j] : j \in 1..Len(s)}

RECURSIVE SumSeq(_)
SumSeq(s) == IF s = <<>> THEN 0 ELSE Head(s) + SumSeq(Tail(s))

\* str.split("\n"): the pieces between line breaks, empty pieces kept.
RECURSIVE Split(_)
Split(s) ==
    IF \A j \in 1..Len(s) : s[j] # "\n"
    THEN <<s>>
    ELSE LET k == CHOOSE j \in 1..Len(s) :
                    /\ s[j] = "\n"
                    /\ \A h \in 1..(j - 1) : s[h] # "\n"
         IN <<SubSeq(s, 1, k - 1)>> \o Split(SubSeq(s, k + 1, Len(s)))

(* ------------------------------------------------------------ clean_data *)

\* The mutation of one value: `if value == " ": record[key] = None`, with
\* blankness tested by stripping instead of by equality.
CleanValue_strip(v) ==
    IF v.t = "str" /\ \A j \in 1..Len(v.v) : v.v[j] = " " THEN Null ELSE v

\* main.py:140-141.  Python's == between a list (or None) and " " is False.
CleanValue(v) == IF v = SingleSpace THEN Null ELSE v

\* main.py:139-141: every key keeps its place, its value is cleaned.
CleanRecord(record) == [k \in DOMAIN record |-> CleanValue(record[k])]

\* clean_data with the append indented into the loop over the items: the
\* record is appended once per key.
RECURSIVE clean_data_dup(_)
clean_data_dup(data) ==
    IF data = <<>> THEN <<>>
    ELSE [j \in 1..Cardinality(DOMAIN Head(data)) |-> CleanRecord(Head(data))]
            \o clean_data_dup(Tail(data))

\* main.py:135-143: the records in their order, each one cleaned.
RECURSIVE clean_data(_)
clean_data(data) ==
    IF data = <<>> THEN <<>>
    ELSE <<CleanRecord(Head(data))>> \o clean_data(Tail(data))

(* ------------------------------------------------- the detail form (DOM) *)

\* A data cell holding text, and one holding an image.
TextCell(text) == [img |-> FALSE, text |-> text, src |-> <<>>]
ImgCell(src) == [img |-> TRUE, text |-> <<>>, src |-> src]

LogoUrl == <<"http://x/y.png">>

\* No detail form is rendered (search form or list view).
NoForm == [labels |-> <<>>, cells |-> <<>>]

\* The detail forms the modelled site can render: label cells and data
\* cells in DOM order.  Equal and unequal cell counts, a repeated label, an
\* empty label, a blank value, line breaks and images all occur.
Forms ==
    { [labels |-> <<"Name", "Counties Available">>,
       cells  |-> <<TextCell(<<"A", "\n", "B">>), TextCell(<<"A", "\n", "B">>)>>],
      [labels |-> <<"Name", "Name">>,
       cells  |-> <<TextCell(<<" ">>), ImgCell(LogoUrl)>>],
      [labels |-> <<"", "Counties Available">>,
       cells  |-> <<TextCell(<<" ">>)>>],
      [labels |-> <<"Name">>,
       cells  |-> <<TextCell(<<"A">>), TextCell(<<" ">>)>>],
      [labels |-> <<"Counties Available">>,
       cells  |-> <<ImgCell(LogoUrl), ImgCell(LogoUrl)>>] }

(* -------------------------------------------------- extract_service_data *)

\* main.py:64-67: the labels whose text is split into a list.
MultiValued == {"Keyword(s) Associate With Service", "Counties Available"}

\* main.py:50-54: the innerText of every label cell, in DOM order.
HarvestKeys(form) == form.labels

\* main.py:64: keys[i] is read for a text cell only; it raises IndexError
\* when the cell has no label at its position.
RaisesIndexError(ks, cells) ==
    \E j \in 1..Len(cells) : ~cells[j].img /\ j > Len(ks)

\* The other splitting rule: a text is split whenever it holds a line
\* break, whatever its label.
CellValue_anybreak(ks, j, cell) ==
    IF cell.img THEN Str(cell.src)
    ELSE IF ks[j] \in MultiValued \/ \E h \in 1..Len(cell.text) : cell.text[h] = "\n"
         THEN List(Split(cell.text))
    ELSE Str(cell.text)

\* main.py:61-71: the value harvested from the data cell at position j.
CellValue(ks, j, cell) ==
    IF cell.img THEN Str(cell.src)
    ELSE IF ks[j] \in MultiValued THEN List(Split(cell.text))
    ELSE Str(cell.text)

\* main.py:57-71: one value per data cell, in DOM order.
HarvestValues(ks, cells) == [j \in 1..Len(cells) |-> CellValue(ks, j, cells[j])]

\* dict(zip_longest(keys, values)) cut to the keys: every label gets an
\* entry, a label without a data cell gets None.
Zip_allkeys(ks, vs) ==
    [k \in Range(ks) |->
        LET last == CHOOSE j \in 1..Len(ks) :
                        ks[j] = k /\ \A h \in (j + 1)..Len(ks) : ks[h] # k
        IN IF last <= Len(vs) THEN vs[last] ELSE Null]

\* main.py:88, dict(zip(keys, values)): pairs up to the shorter length; a
\* label that occurs again overwrites the value of its earlier occurrence.
Zip(ks, vs) ==
    LET m == Min(Len(ks), Len(vs))
    IN [k \in {ks[j] : j \in 1..m} |->
            LET last == CHOOSE j \in 1..m :
                            ks[j] = k /\ \A h \in (j + 1)..m : ks[h] # k
            IN vs[last]]

(* ----------------------------------------------------------------- state *)

VARIABLES
    site,           \* environment: site[p] = number of triggers on page p
    view,           \* environment: "search", "list" or "detail"
    shown,          \* environment: the listing page displayed (0: none yet)
    pending,        \* environment: the next page was asked for, not yet drawn
    openForm,       \* environment: the detail form rendered, or NoForm
    zoom,           \* environment: document.body.style.zoom
    pc,             \* the statement the program is at
    data,           \* main: the accumulated records
    page_number,    \* main
    service_links,  \* scrape_page: the triggers located at main.py:95
    page_data,      \* scrape_page: `data`, the records of this attempt
    i,              \* scrape_page: the loop index (0-based)
    gsl_links,      \* get_service_links: `service_links`, the links gathered
    links,          \* the list the last get_service_links call returned
    service_link,   \* extract_service_data: the handle to click
    keys,           \* extract_service_data
    values,         \* extract_service_data
    saved,          \* the list handed to save_data (written to the file)
    faults,         \* transient faults raised so far
    origin,         \* history: origin[j] = <<page, index>> of data[j]
    page_origin,    \* history: the same for page_data
    hist,           \* history: which faults and restarts the run has seen
    esd,            \* history: the current/last extract_service_data call
    spin,           \* history: parity of the empty passes of the running
                    \* get_service_links call
    cin,            \* CleanSpec: the argument of clean_data
    cout1,          \* CleanSpec: clean_data(cin)
    cout2           \* CleanSpec: clean_data(clean_data(cin))

envVars == <<site, view, shown, pending, openForm, zoom>>
mainVars == <<data, origin, page_number, saved>>
pageVars == <<service_links, page_data, page_origin, i, gsl_links, links>>
esdVars == <<service_link, keys, values>>
cleanVars == <<cin, cout1, cout2>>
vars == <<envVars, pc, mainVars, pageVars, esdVars, faults, hist, esd, spin,
          cleanVars>>

\* A search with zero results: one listing page without a trigger.
NoResults == <<0>>

\* The directories modelled: one count of triggers (>= 1) per page, or no
\* result at all.
Sites ==
    {NoResults} \cup
    UNION {{s \in [1..n -> 1..MaxSite] : SumSeq(s) <= MaxSite} : n \in 1..MaxSite}

\* A WebElement handle of the trigger at position idx of listing page
\* `page`.  History: `old` once a detail view was opened or closed after
\* the handle was obtained, `aborted` if it was gathered in a query pass
\* that a stale element aborted.
Handle(p, j) == [page |-> p, idx |-> j, old |-> FALSE, aborted |-> FALSE]

NoHandle == Handle(0, 0)

\* The handles of hs after a detail view was opened or closed.
Expire(hs) == [k \in 1..Len(hs) |-> [hs[k] EXCEPT !.old = TRUE]]

\* The handles of hs, gathered in a pass that is aborted.
MarkAborted(hs) == [k \in 1..Len(hs) |-> [hs[k] EXCEPT !.aborted = TRUE]]

EsdIdle ==
    [trig |-> 0, back |-> 0, icpt |-> FALSE, late |-> FALSE, scrolled |-> FALSE,
     exit |-> "none", form |-> NoForm, rec |-> <<>>]

\* ret/existed: what click_next_page last returned, and whether the
\* next-page control existed when it did.
HistInit ==
    [stale |-> FALSE, icpt |-> FALSE, other |-> "none", restarts |-> 0,
     ret |-> "none", existed |-> FALSE, saves |-> 0, total |-> 0,
     undrawn |-> FALSE, dropped |-> FALSE]

\* main.py:146-161: the driver is up, the search page is loading.
Init ==
    /\ site \in Sites
    /\ view = "search" /\ shown = 0 /\ openForm = NoForm /\ zoom = "100%"
    /\ pending = FALSE
    /\ pc = "search"
    /\ data = <<>> /\ origin = <<>> /\ page_number = 1 /\ saved = <<>>
    /\ service_links = <<>> /\ page_data = <<>> /\ page_origin = <<>> /\ i = 0
    /\ gsl_links = <<>> /\ links = <<>>
    /\ service_link = NoHandle /\ keys = <<>> /\ values = <<>>
    /\ faults = 0 /\ hist = HistInit /\ esd = EsdIdle /\ spin = 0
    /\ cin = <<>> /\ cout1 = <<>> /\ cout2 = <<>>

(* --------------------------------------------------------- browser (DOM) *)

\* The "View Details" anchors of the DOM: the triggers of the page shown
\* while the list view is up, none on the search form or in a detail view.
VisibleLinks ==
    IF view = "list" THEN [j \in 1..site[shown] |-> Handle(shown, j)] ELSE <<>>

\* The JumpToNext control: on every listing page but the last.
NextControlExists == view = "list" /\ shown < Len(site)

\* A transient fault may still be raised.
MayFault == faults < MaxFaults

\* An exception of any other class may be raised (at most one per run: it
\* either ends the run or is swallowed by click_next_page, which ends it).
MayError == hist.other = "none"

GslPcs == {"sp_gsl", "sp_gsl_i"}
EsdPcs == {"esd_click", "esd_keys", "esd_values", "esd_back"}

(* ------------------------------------------------------------------ main *)

\* main.py:151-155: the search button is found and clicked; the first
\* listing page is shown.
SearchClick ==
    /\ pc = "search"
    /\ view' = "list" /\ shown' = 1
    /\ pc' = "main_loop"
    /\ UNCHANGED <<site, pending, openForm, zoom, mainVars, pageVars, esdVars,
                   faults, hist, esd, spin, cleanVars>>

\* main.py:156-157: NoSuchElementException, look again.
SearchRetry ==
    /\ pc = "search" /\ MayFault
    /\ faults' = faults + 1
    /\ UNCHANGED <<envVars, pc, mainVars, pageVars, esdVars, hist, esd, spin,
                   cleanVars>>

\* main.py:162-165: loop head, scroll to the top, call scrape_page.
MainLoop ==
    /\ pc = "main_loop"
    /\ page_data' = <<>> /\ page_origin' = <<>>
    /\ pc' = "sp_gsl"
    /\ UNCHANGED <<envVars, mainVars, service_links, i, gsl_links, links, esdVars,
                   faults, hist, esd, spin, cleanVars>>

(* ----------------------------------------- scrape_page, get_service_links *)

\* `data = []` hoisted out of the retry loop: a restarted attempt keeps the
\* records of the aborted one.
AttemptData_keep(old) == old

\* main.py:96: every attempt of scrape_page starts from an empty list.
AttemptData(old) == <<>>

\* The stale handler without its reset: the links gathered so far stay.
OnStale_keep(gathered) == gathered

\* main.py:31-33: a stale element aborts the pass; what was gathered is
\* thrown away.
OnStale(gathered) == <<>>

\* main.py:28-30: what service_links holds after a query pass that ran to
\* its end and saw the first n triggers of the list.
Pass(n) == gsl_links \o SubSeq(VisibleLinks, 1, n)

\* A loop condition that lets any pass end the polling.
PassDone_any(result) == TRUE

\* main.py:26: `while not service_links` ends once the list is not empty.
PassDone(result) == result # <<>>

\* main.py:28-30: the same for a list that is rendered in full.
PassResult == Pass(Len(VisibleLinks))

\* The site renders the list without signalling completion: a pass may run
\* while only the first n triggers are in the DOM.
PassSizes == {n \in 0..Len(VisibleLinks) : n = Len(VisibleLinks) \/ MayFault}

\* The fault budget and the history after a pass that saw n triggers.
PassFaults(n) == IF n < Len(VisibleLinks) THEN faults + 1 ELSE faults

PassHist(n) ==
    IF n < Len(VisibleLinks) THEN [hist EXCEPT !.undrawn = TRUE] ELSE hist

\* main.py:95-96: a query pass of get_service_links finds triggers; they
\* are returned and become service_links, the attempt's data is emptied.
Locate ==
    /\ pc = "sp_gsl"
    /\ \E n \in PassSizes :
        /\ PassDone(Pass(n))
        /\ links' = Pass(n)
        /\ service_links' = Pass(n)
        /\ faults' = PassFaults(n)
        /\ hist' = [PassHist(n) EXCEPT !.dropped = @ \/ page_data # <<>>]
    /\ gsl_links' = <<>>
    /\ page_data' = AttemptData(page_data)
    /\ page_origin' = AttemptData(page_origin)
    /\ i' = 0
    /\ spin' = 0
    /\ pc' = "sp_for"
    /\ UNCHANGED <<envVars, mainVars, esdVars, esd, cleanVars>>

\* main.py:97: the for loop goes on to index i, or is exhausted (line 104).
ForNext ==
    /\ pc = "sp_for"
    /\ pc' = IF i < Len(service_links) THEN "sp_gsl_i" ELSE "sp_return"
    /\ UNCHANGED <<envVars, mainVars, pageVars, esdVars, faults, hist, esd, spin,
                   cleanVars>>

\* Element i of the list held since main.py:95 instead of a located one.
PickLink_held(located, held, j) == held[j + 1]

\* main.py:100: get_service_links(driver)[i].
PickLink(located, held, j) == located[j + 1]

\* A handler that empties the attempt's data before leaving the loop.
OnIndexError_drop(d) == <<>>

\* main.py:107-108: `except IndexError: break` leaves data as it is.
OnIndexError(d) == d

\* main.py:100: the triggers are located again and element i is taken;
\* IndexError (line 107) ends the page.
Relocate ==
    /\ pc = "sp_gsl_i"
    /\ \E n \in PassSizes :
        /\ PassDone(Pass(n))
        /\ links' = Pass(n)
        /\ faults' = PassFaults(n)
        /\ hist' = PassHist(n)
        /\ IF i + 1 <= Len(Pass(n))
           THEN /\ service_link' = PickLink(Pass(n), service_links, i)
                /\ esd' = EsdIdle
                /\ pc' = "esd_click"
                /\ UNCHANGED <<page_data, page_origin>>
           ELSE /\ pc' = "sp_return"
                /\ page_data' = OnIndexError(page_data)
                /\ page_origin' = OnIndexError(page_origin)
                /\ UNCHANGED <<service_link, esd>>
    /\ gsl_links' = <<>>
    /\ spin' = 0
    /\ UNCHANGED <<envVars, mainVars, service_links, i, keys, values, cleanVars>>

\* main.py:26-30: a pass that finds no "View Details" link; poll again.
GslEmpty ==
    /\ pc \in GslPcs
    /\ \E n \in PassSizes :
        /\ ~PassDone(Pass(n))
        /\ faults' = PassFaults(n)
        /\ hist' = PassHist(n)
    /\ spin' = 1 - spin
    /\ UNCHANGED <<envVars, pc, mainVars, pageVars, esdVars, esd, cleanVars>>

\* main.py:31-33: a link went stale during the pass, after n links were
\* gathered; start the pass over.
GslStale ==
    /\ pc \in GslPcs /\ MayFault
    /\ \E n \in 0..Len(VisibleLinks) :
        gsl_links' = OnStale(gsl_links \o MarkAborted(SubSeq(VisibleLinks, 1, n)))
    /\ faults' = faults + 1
    /\ hist' = [hist EXCEPT !.stale = TRUE]
    /\ UNCHANGED <<envVars, pc, mainVars, service_links, page_data, page_origin,
                   i, links, esdVars, esd, spin, cleanVars>>

\* main.py:105-106: StaleElementReferenceException caught; next attempt.
SpExcept ==
    /\ pc = "sp_except"
    /\ hist' = [hist EXCEPT !.restarts = @ + 1]
    /\ pc' = "sp_gsl"
    /\ UNCHANGED <<envVars, mainVars, pageVars, esdVars, faults, esd, spin,
                   cleanVars>>

\* The page's records put in the place of data instead of added to it.
Extend_replace(d, pd) == pd

\* main.py:166: data.extend(page_data).
Extend(d, pd) == d \o pd

\* main.py:109 and 165-167: scrape_page returns; main extends data.
SpReturn ==
    /\ pc = "sp_return"
    /\ page_number' = page_number + 1
    /\ data' = Extend(data, page_data)
    /\ origin' = Extend(origin, [k \in 1..Len(page_origin) |->
                                    SubSeq(page_origin[k], 1, 4)])
    /\ hist' = [hist EXCEPT !.total = @ + Len(page_data), !.dropped = FALSE]
    /\ pc' = "next"
    /\ UNCHANGED <<envVars, saved, pageVars, esdVars, faults, esd, spin,
                   cleanVars>>

(* -------------------------------------------------- extract_service_data *)

\* Where the record being extracted comes from: main's page counter, the
\* loop index (1-based), the listing page and position of the trigger that
\* was clicked, and the attempt of scrape_page (the restarts so far).
Origin ==
    <<page_number, i + 1, service_link.page, service_link.idx, hist.restarts>>

\* The element behind the handle about to be clicked has left the DOM: the
\* listing page it was located on is no longer the one displayed.
ElementGone == service_link.page # shown

\* main.py:41-42: the trigger is clicked; the site renders a detail form.
ClickOk ==
    /\ pc = "esd_click" /\ ~ElementGone
    /\ view' = "detail"
    /\ openForm' \in Forms
    /\ esd' = [esd EXCEPT !.trig = @ + 1, !.form = openForm']
    /\ service_links' = Expire(service_links) /\ links' = Expire(links)
    /\ pc' = "esd_keys"
    /\ UNCHANGED <<site, shown, pending, zoom, mainVars, page_data, page_origin,
                   i, gsl_links, esdVars, faults, hist, spin, cleanVars>>

\* main.py:43-47: the click is intercepted; scroll the trigger to the
\* centre and click again.
ClickIntercepted ==
    /\ pc = "esd_click" /\ ~ElementGone /\ MayFault
    /\ faults' = faults + 1
    /\ hist' = [hist EXCEPT !.icpt = TRUE]
    /\ esd' = [esd EXCEPT !.icpt = TRUE, !.late = esd.scrolled, !.scrolled = TRUE]
    /\ UNCHANGED <<envVars, pc, mainVars, pageVars, esdVars, spin, cleanVars>>

\* main.py:49-54: the label cells are read.
ReadKeys ==
    /\ pc = "esd_keys"
    /\ keys' = HarvestKeys(openForm)
    /\ pc' = IF keys' = <<>> THEN "esd_keys" ELSE "esd_values"
    /\ UNCHANGED <<envVars, mainVars, pageVars, service_link, values, faults,
                   hist, esd, spin, cleanVars>>

\* main.py:56-71: the data cells are read.
ReadValues ==
    /\ pc = "esd_values" /\ ~RaisesIndexError(keys, openForm.cells)
    /\ values' = HarvestValues(keys, openForm.cells)
    /\ pc' = IF values' = <<>> THEN "esd_values" ELSE "esd_back"
    /\ UNCHANGED <<envVars, mainVars, pageVars, service_link, keys, faults, hist,
                   esd, spin, cleanVars>>

\* main.py:64 raises IndexError, nothing in extract_service_data catches
\* it, scrape_page does (main.py:107-108) and ends the page; the detail
\* view stays open.
ReadValuesIndexError ==
    /\ pc = "esd_values" /\ RaisesIndexError(keys, openForm.cells)
    /\ esd' = [esd EXCEPT !.exit = "IndexError"]
    /\ pc' = "sp_return"
    /\ UNCHANGED <<envVars, mainVars, pageVars, esdVars, faults, hist, spin,
                   cleanVars>>

\* main.py:75-80 and 88, then 98 and 103: back is clicked, the list view
\* returns, the record is built, returned and appended.
BackOk ==
    /\ pc = "esd_back"
    /\ view' = "list" /\ openForm' = NoForm /\ zoom' = "10%"
    /\ esd' = [esd EXCEPT !.back = @ + 1, !.exit = "return", !.rec = Zip(keys, values)]
    /\ page_data' = Append(page_data, Zip(keys, values))
    /\ page_origin' = Append(page_origin, Origin)
    /\ i' = i + 1
    /\ service_links' = Expire(service_links) /\ links' = Expire(links)
    /\ pc' = "sp_for"
    /\ UNCHANGED <<site, shown, pending, mainVars, gsl_links, esdVars, faults,
                   hist, spin, cleanVars>>

\* main.py:81-86: the back click is intercepted; zoom out, scroll, retry.
BackIntercepted ==
    /\ pc = "esd_back" /\ MayFault
    /\ faults' = faults + 1
    /\ hist' = [hist EXCEPT !.icpt = TRUE]
    /\ zoom' = "50%"
    /\ UNCHANGED <<site, view, shown, pending, openForm, pc, mainVars, pageVars,
                   esdVars, esd, spin, cleanVars>>

\* A StaleElementReferenceException at any WebDriver call of
\* extract_service_data: not caught there, it reaches main.py:105.
EsdStale ==
    /\ pc \in EsdPcs /\ MayFault
    /\ faults' = faults + 1
    /\ hist' = [hist EXCEPT !.stale = TRUE]
    /\ esd' = [esd EXCEPT !.exit = "stale"]
    /\ pc' = "sp_except"
    /\ UNCHANGED <<envVars, mainVars, pageVars, esdVars, spin, cleanVars>>

\* main.py:42: the click on a handle whose element has left the DOM raises
\* StaleElementReferenceException; it reaches main.py:105.
ClickGone ==
    /\ pc = "esd_click" /\ ElementGone
    /\ hist' = [hist EXCEPT !.stale = TRUE]
    /\ esd' = [esd EXCEPT !.exit = "stale"]
    /\ pc' = "sp_except"
    /\ UNCHANGED <<envVars, mainVars, pageVars, esdVars, faults, spin, cleanVars>>

(* ------------------------------------------------------- click_next_page *)

\* main.py:116-120 and 125: the control is found and clicked, the next
\* page is shown, False is returned.
NextClick ==
    /\ pc = "next" /\ NextControlExists /\ ~pending
    /\ shown' = shown + 1
    /\ hist' = [hist EXCEPT !.ret = "False", !.existed = TRUE]
    /\ pc' = "main_loop"
    /\ UNCHANGED <<site, view, pending, openForm, zoom, mainVars, pageVars,
                   esdVars, faults, esd, spin, cleanVars>>

\* main.py:116-120 and 125: the same click, but the site draws the next
\* page later and signals nothing: False is returned while the list of the
\* page left behind is still in the DOM.
NextClickLate ==
    /\ pc = "next" /\ NextControlExists /\ ~pending /\ MayFault
    /\ pending' = TRUE
    /\ faults' = faults + 1
    /\ hist' = [hist EXCEPT !.ret = "False", !.existed = TRUE, !.undrawn = TRUE]
    /\ pc' = "main_loop"
    /\ UNCHANGED <<site, view, shown, openForm, zoom, mainVars, pageVars,
                   esdVars, esd, spin, cleanVars>>

\* The site draws the page asked for: the list of the page left behind is
\* replaced.  The script sees the DOM only through its WebDriver calls, so
\* the draw is placed right before one of them: a query pass, a trigger
\* click or, at the latest, the lookup of the next-page control.
Render ==
    /\ pending /\ view = "list"
    /\ pc \in {"next", "esd_click"} \cup GslPcs
    /\ shown' = shown + 1
    /\ pending' = FALSE
    /\ UNCHANGED <<site, view, openForm, zoom, pc, mainVars, pageVars, esdVars,
                   faults, hist, esd, spin, cleanVars>>

\* main.py:121-122: stale control or intercepted click; locate it again.
NextRetry ==
    /\ pc = "next" /\ NextControlExists /\ ~pending /\ MayFault
    /\ faults' = faults + 1
    /\ \E kind \in {"stale", "icpt"} : hist' = [hist EXCEPT ![kind] = TRUE]
    /\ UNCHANGED <<envVars, pc, mainVars, pageVars, esdVars, esd, spin, cleanVars>>

\* main.py:123-124: find_element raises NoSuchElementException, the bare
\* except returns True.
NextAbsent ==
    /\ pc = "next" /\ ~NextControlExists
    /\ hist' = [hist EXCEPT !.ret = "True", !.existed = FALSE]
    /\ pc' = "save"
    /\ UNCHANGED <<envVars, mainVars, pageVars, esdVars, faults, esd, spin,
                   cleanVars>>

\* main.py:123-124: any other exception of find_element or click meets the
\* same bare except, which returns True.
NextSwallow ==
    /\ pc = "next" /\ MayError
    /\ hist' = [hist EXCEPT !.other = "next", !.ret = "True",
                            !.existed = NextControlExists]
    /\ pc' = "save"
    /\ UNCHANGED <<envVars, mainVars, pageVars, esdVars, faults, esd, spin,
                   cleanVars>>

(* ----------------------------------------------------- the end of the run *)

\* main.py:170: clean_data(data) is handed to save_data and written.
Save ==
    /\ pc = "save"
    /\ saved' = clean_data(data)
    /\ hist' = [hist EXCEPT !.saves = @ + 1]
    /\ pc' = "done"
    /\ UNCHANGED <<envVars, data, origin, page_number, pageVars, esdVars, faults,
                   esd, spin, cleanVars>>

\* An exception that no handler on the way catches (anything but the
\* classes handled above) leaves main; nothing is written.
Crash ==
    /\ pc \in {"search"} \cup GslPcs \cup EsdPcs /\ MayError
    /\ hist' = [hist EXCEPT !.other = pc]
    /\ esd' = IF pc \in EsdPcs THEN [esd EXCEPT !.exit = "error"] ELSE esd
    /\ pc' = "crashed"
    /\ UNCHANGED <<envVars, mainVars, pageVars, esdVars, faults, spin, cleanVars>>

Next ==
    \/ SearchClick \/ SearchRetry \/ MainLoop
    \/ Locate \/ ForNext \/ Relocate \/ GslEmpty \/ GslStale \/ SpExcept \/ SpReturn
    \/ ClickOk \/ ClickIntercepted \/ ReadKeys \/ ReadValues \/ ReadValuesIndexError
    \/ BackOk \/ BackIntercepted \/ EsdStale \/ ClickGone
    \/ NextClick \/ NextClickLate \/ Render \/ NextRetry \/ NextAbsent \/ NextSwallow
    \/ Save \/ Crash

Spec == Init /\ [][Next]_vars

\* The script is one thread that keeps running: a step that can be taken
\* is taken.
FairSpec == Spec /\ WF_vars(Next)

(* --------------------------------------------- clean_data on its own *)

CleanKeys == {"Name", "Logo"}

\* The values a record can hold: the single space, the empty string, two
\* spaces, a word, a URL, a list holding a single space, null.
CleanValues ==
    {SingleSpace, Str(<<>>), Str(<<" ", " ">>), Str(<<"A">>), Str(LogoUrl),
     List(<<<<" ">>>>), Null}

CleanRecords == UNION {[D -> CleanValues] : D \in SUBSET CleanKeys}

CleanInputs == UNION {[1..n -> CleanRecords] : n \in 0..MaxClean}

\* clean_data is about to be called on a list of records.
InitClean ==
    /\ cin \in CleanInputs /\ cout1 = <<>> /\ cout2 = <<>>
    /\ pc = "clean0"
    /\ site = <<1>>
    /\ view = "search" /\ shown = 0 /\ openForm = NoForm /\ zoom = "100%"
    /\ pending = FALSE
    /\ data = <<>> /\ origin = <<>> /\ page_number = 1 /\ saved = <<>>
    /\ service_links = <<>> /\ page_data = <<>> /\ page_origin = <<>> /\ i = 0
    /\ gsl_links = <<>> /\ links = <<>>
    /\ service_link = NoHandle /\ keys = <<>> /\ values = <<>>
    /\ faults = 0 /\ hist = HistInit /\ esd = EsdIdle /\ spin = 0

\* main.py:135-143 applied to the input.
CleanFirst ==
    /\ pc = "clean0"
    /\ cout1' = clean_data(cin)
    /\ pc' = "clean1"
    /\ UNCHANGED <<envVars, mainVars, pageVars, esdVars, faults, hist, esd, spin,
                   cin, cout2>>

\* main.py:135-143 applied to its own result.
CleanAgain ==
    /\ pc = "clean1"
    /\ cout2' = clean_data(cout1)
    /\ pc' = "clean2"
    /\ UNCHANGED <<envVars, mainVars, pageVars, esdVars, faults, hist, esd, spin,
                   cin, cout1>>

NextClean == CleanFirst \/ CleanAgain

CleanSpec == InitClean /\ [][NextClean]_vars

(* ------------------------------------ extract_service_data on its own *)

WideLabels ==
    {"Name", "Counties Available", "Keyword(s) Associate With Service", ""}

WideCells ==
    {TextCell(<<"A">>), TextCell(<<"A", "\n", "B">>), TextCell(<<"A", "\n">>),
     TextCell(<<" ">>), ImgCell(LogoUrl)}

\* Every detail form of 1..MaxCells label cells and 1..MaxCells data cells.
WideForms ==
    {[labels |-> l, cells |-> c] :
        l \in UNION {[1..n -> WideLabels] : n \in 1..MaxCells},
        c \in UNION {[1..n -> WideCells] : n \in 1..MaxCells}}

\* main.py:42 has just opened the detail form of the only trigger of a
\* one-page directory; extract_service_data goes on to read it.
InitExtract ==
    /\ openForm \in WideForms
    /\ site = <<1>> /\ view = "detail" /\ shown = 1 /\ zoom = "100%"
    /\ pending = FALSE
    /\ pc = "esd_keys"
    /\ data = <<>> /\ origin = <<>> /\ page_number = 1 /\ saved = <<>>
    /\ service_links = Expire(<<Handle(1, 1)>>) /\ links = Expire(<<Handle(1, 1)>>)
    /\ gsl_links = <<>> /\ page_data = <<>> /\ page_origin = <<>> /\ i = 0
    /\ service_link = Handle(1, 1) /\ keys = <<>> /\ values = <<>>
    /\ faults = 0 /\ hist = HistInit /\ spin = 0
    /\ esd = [EsdIdle EXCEPT !.trig = 1, !.form = openForm]
    /\ cin = <<>> /\ cout1 = <<>> /\ cout2 = <<>>

NextExtract == ReadKeys \/ ReadValues \/ ReadValuesIndexError \/ BackOk

ExtractSpec == InitExtract /\ [][NextExtract]_vars

(* ------------------------------------------------------------ properties *)

\* <<p, j>> comes before <<q, k>> in scrape order.
Before(a, b) == a[1] < b[1] \/ (a[1] = b[1] /\ a[2] < b[2])

\* extract_service_data has ended by returning or by IndexError (neither a
\* stale reference nor another exception was raised in it).
EsdEnded == esd.exit \in {"return", "IndexError"}

\* C1: with no stale, intercept or other fault in the run and every list
\* drawn in full by the time it is queried, the list handed to save_data holds
\* exactly one record per trigger of the directory.
C1_PaginationCount ==
    (pc = "done" /\ ~hist.stale /\ ~hist.icpt /\ ~hist.undrawn
                 /\ hist.other = "none")
        => Len(saved) = SumSeq(site)

\* C2: the records handed to save_data are in scrape order: strictly
\* increasing in <<page number, loop index>>, whatever restarts happened.
C2_ScrapeOrder ==
    /\ Len(origin) = Len(data)
    /\ \A a, b \in 1..Len(origin) : a < b => Before(origin[a], origin[b])
    /\ pc = "done" => Len(saved) = Len(origin)

\* A run that restarted scrape_page and saved records of two pages, two of
\* them from one page.
C2_Witness ==
    /\ pc = "done" /\ hist.restarts >= 1
    /\ \E a, b \in 1..Len(saved) : origin[a][1] # origin[b][1]
    /\ \E a, b \in 1..Len(saved) : a # b /\ origin[a][1] = origin[b][1]

\* C3: once an exception outside the handled classes has been raised,
\* save_data is never called.
C3_ErrorNeverSaves == hist.other # "none" => pc # "done"

\* C4: click_next_page returns True exactly when the next-page control
\* does not exist.
C4_TrueIffAbsent ==
    /\ hist.ret = "True" => ~hist.existed
    /\ hist.ret = "False" => hist.existed

\* C5 as claimed: a returned record has min(len(keys), len(values)) entries.
C5_ZipLength ==
    esd.exit = "return"
        => Cardinality(DOMAIN esd.rec) = Min(Len(keys), Len(values))

\* C5: a returned record has one entry per distinct label text among the
\* first min(len(keys), len(values)) labels: min(...) entries when those
\* labels differ pairwise, fewer when a label text repeats.
C5_ZipDistinctLabels ==
    esd.exit = "return" =>
        LET m == Min(Len(keys), Len(values))
            firstKeys == {keys[j] : j \in 1..m}
        IN /\ Cardinality(DOMAIN esd.rec) = Cardinality(firstKeys)
           /\ Cardinality(DOMAIN esd.rec) <= m
           /\ (\A j, h \in 1..m : j # h => keys[j] # keys[h])
                  => Cardinality(DOMAIN esd.rec) = m

\* A record returned from a form whose two labels have the same text.
C5_Witness ==
    /\ esd.exit = "return"
    /\ Len(keys) = 2 /\ Len(values) = 2 /\ keys[1] = keys[2]
    /\ Cardinality(DOMAIN esd.rec) = 1

\* C6: a form with different numbers of label and data cells raises no
\* error: back is clicked and the truncated record is returned.
C6_MismatchTruncates ==
    (EsdEnded /\ Len(esd.form.labels) # Len(esd.form.cells))
        => /\ esd.exit = "return"
           /\ esd.back = 1
           /\ Cardinality(DOMAIN esd.rec)
                <= Min(Len(esd.form.labels), Len(esd.form.cells))

\* scrape_page returns with one record for every trigger of the page.
PageScraped == pc = "sp_return" /\ Len(page_data) = site[shown]

\* C7: after a stale reference raised in extract_service_data reached
\* scrape_page, scrape_page eventually returns a record for every trigger.
\* Runs ended by another exception or by the IndexError of main.py:64 are
\* not held against the claim.
C7_StaleRecovered ==
    (pc = "sp_except")
        ~> (PageScraped \/ hist.other # "none" \/ esd.exit = "IndexError")

\* C8: an extraction whose trigger click was intercepted until the trigger
\* was scrolled into view ends by returning the record of the form, after
\* one successful trigger click and one successful back click.
C8_InterceptConverges ==
    (EsdEnded /\ esd.icpt /\ ~esd.late)
        => /\ esd.exit = "return"
           /\ esd.trig = 1 /\ esd.back = 1
           /\ esd.rec = Zip(HarvestKeys(esd.form),
                            HarvestValues(HarvestKeys(esd.form), esd.form.cells))

\* C9: clean_data keeps the number and order of the records and every
\* record's keys; a value equal to the single-space string becomes null and
\* every other value is unchanged.
C9_CleanOnlySingleSpace ==
    pc \in {"clean1", "clean2"} =>
        /\ Len(cout1) = Len(cin)
        /\ \A r \in 1..Len(cin) :
            /\ DOMAIN cout1[r] = DOMAIN cin[r]
            /\ \A k \in DOMAIN cin[r] :
                cout1[r][k] = IF cin[r][k] = SingleSpace THEN Null ELSE cin[r][k]

\* Cleaned input holding a single space, an empty string and a list with a
\* single space.
C9_Witness ==
    /\ pc = "clean1" /\ Len(cin) = 2
    /\ \E k \in DOMAIN cin[1] : cin[1][k] = SingleSpace
    /\ \E k \in DOMAIN cin[1] : cin[1][k] = Str(<<>>)
    /\ \E k \in DOMAIN cin[2] : cin[2][k] = List(<<<<" ">>>>)

\* C10: cleaning the cleaned records changes nothing.
C10_CleanIdempotent == pc = "clean2" => cout2 = cout1

\* Cleaned twice, where the first cleaning changed a value of a record
\* with two keys.
C10_Witness ==
    /\ pc = "clean2" /\ cout1 # cin
    /\ \E r \in 1..Len(cin) : DOMAIN cin[r] = CleanKeys

\* The pieces joined by line breaks.
RECURSIVE Join(_)
Join(l) ==
    IF Len(l) = 1 THEN l[1] ELSE l[1] \o <<"\n">> \o Join(Tail(l))

\* v is the list of the pieces of text between its line breaks.
IsSplitOf(v, text) ==
    /\ v.t = "list" /\ Len(v.v) >= 1
    /\ Join(v.v) = text
    /\ \A p \in 1..Len(v.v) : \A h \in 1..Len(v.v[p]) : v.v[p][h] # "\n"

\* C11: on a form with as many label cells as data cells, the value at
\* position j is the image URL if cell j holds an image; else the list of
\* the lines of its text if label j is one of the two multi-valued labels;
\* else its text as one string, line breaks included.
C11_ValueRule ==
    (pc = "esd_back" /\ Len(openForm.labels) = Len(openForm.cells)) =>
        /\ Len(values) = Len(openForm.cells)
        /\ \A j \in 1..Len(values) :
            LET cell == openForm.cells[j]
                label == openForm.labels[j]
            IN IF cell.img THEN values[j] = Str(cell.src)
               ELSE IF label \in {"Keyword(s) Associate With Service",
                                  "Counties Available"}
                    THEN IsSplitOf(values[j], cell.text)
               ELSE values[j] = Str(cell.text)

\* The same two-line text read under a multi-valued label and under
\* another label.
C11_Witness ==
    /\ pc = "esd_back"
    /\ openForm.labels = <<"Counties Available", "Name">>
    /\ values = <<List(<< <<"A">>, <<"B">> >>), Str(<<"A", "\n", "B">>)>>

\* C12: save_data is called at most once, at the end of the run and after
\* click_next_page returned True; nothing is written between pages, and
\* what is written has one record for every record that any scrape_page
\* call returned.
C12_SaveOnceAtEnd ==
    /\ hist.saves <= 1
    /\ hist.saves = 1 <=> pc = "done"
    /\ pc = "done" => hist.ret = "True"
    /\ pc # "done" => saved = <<>>
    /\ pc = "done" => Len(saved) = hist.total

\* A run saved after scraping two pages that both returned records.
C12_Witness ==
    /\ pc = "done" /\ hist.saves = 1 /\ page_number >= 3
    /\ \E a, b \in 1..Len(saved) : origin[a][1] # origin[b][1]

\* C13: list view and detail view alternate strictly: a trigger is clicked
\* and the next-page control is looked up only in the list view, a detail
\* view is open only inside extract_service_data, and scrape_page returns
\* and click_next_page runs with the list view shown.
C13_ListDetailAlternate ==
    /\ pc = "esd_click" => view = "list"
    /\ pc \in {"sp_for", "sp_gsl_i", "sp_return", "next", "save", "done"}
           => view = "list"

\* C14: a list returned by get_service_links is never empty and is the
\* harvest of one completed query pass: no link gathered in a pass that a
\* stale element aborted is in it, and it holds the triggers of one page,
\* each once, in document order.
C14_OnePassResult ==
    /\ pc \in {"sp_for", "sp_gsl_i", "sp_return"} \cup EsdPcs => links # <<>>
    /\ \A k \in 1..Len(links) :
          /\ ~links[k].aborted
          /\ links[k].idx = k
          /\ links[k].page = links[1].page

\* The first get_service_links call of the run has returned a list after a
\* pass of it was aborted by a stale element.
C14_Witness ==
    /\ pc = "sp_for" /\ i = 0 /\ page_number = 1
    /\ hist.stale /\ hist.restarts = 0
    /\ Len(links) >= 2

\* C15: the handle that extract_service_data clicks for index i is element
\* i of the list returned by the latest get_service_links call, and no
\* detail view was opened or closed since that call: the handle is never
\* one of the list held since the attempt began.
C15_FreshHandle ==
    pc = "esd_click" =>
        /\ i + 1 <= Len(links)
        /\ service_link = links[i + 1]
        /\ ~service_link.old
        /\ \A k \in 1..Len(links) : ~links[k].old

\* Index 1 is about to be clicked with a fresh handle while the list held
\* since the start of the attempt dates from before index 0 was extracted.
C15_Witness ==
    /\ pc = "esd_click" /\ i = 1 /\ Len(page_data) = 1
    /\ service_links[2].old /\ ~service_link.old

\* scrape_page has left its loop through the IndexError of main.py:100:
\* the located list had no element at index i.
RelocateMissed ==
    pc = "sp_return" /\ i < Len(service_links) /\ esd.exit = "return"

\* C16: when the list located for index i has no element i, scrape_page
\* leaves the loop without raising and with its data untouched: it returns
\* the records of indices 0..i-1 of the current attempt, one each and in
\* order, and main extends data with them and goes on to click_next_page.
C16_MissingIndexStops ==
    /\ [][(pc = "sp_gsl_i" /\ pc' \notin {"sp_gsl_i", "crashed"}
              /\ Len(links') <= i)
            => (pc' = "sp_return" /\ page_data' = page_data)]_vars
    /\ [](RelocateMissed =>
            /\ Len(page_data) = i /\ Len(page_origin) = i
            /\ \A k \in 1..i : /\ page_origin[k][1] = page_number
                               /\ page_origin[k][2] = k
                               /\ page_origin[k][5] = hist.restarts)
    /\ [][(RelocateMissed /\ pc' # pc)
            => (pc' = "next" /\ data' = data \o page_data)]_vars

\* On page 1 the list held two triggers or more, index 0 was extracted in
\* a restarted attempt, and the list located for index 1 had one element.
C16_Witness ==
    /\ RelocateMissed /\ i = 1 /\ Len(page_data) = 1 /\ Len(links) = 1
    /\ hist.restarts >= 1

\* C17: the list scrape_page returns holds records of its final attempt
\* only, one per loop index and in index order, and no more of them than
\* triggers were located when that attempt began.
C17_RestartDiscards ==
    pc = "sp_return" =>
        /\ Len(page_data) <= Len(service_links)
        /\ Len(page_origin) = Len(page_data)
        /\ \A k \in 1..Len(page_origin) : /\ page_origin[k][1] = page_number
                                          /\ page_origin[k][2] = k
                                          /\ page_origin[k][5] = hist.restarts

\* scrape_page returns records on page 1 after a restart that began while
\* records of the aborted attempt were held.
C17_Witness ==
    /\ pc = "sp_return" /\ page_number = 1 /\ hist.dropped
    /\ Len(page_data) >= 1

\* The directory records, as <<listing page, position>>.
SiteRecords == {r \in (1..Len(site)) \X (1..MaxSite) : r[2] <= site[r[1]]}

\* C18: although the site draws its lists without signalling completion,
\* a trigger about to be clicked belongs to the page that main's counter
\* stands at, no directory record is in data twice, and a run with no
\* other fault saves every directory record.
C18_EachRecordOnce ==
    /\ pc = "esd_click" /\ ~ElementGone => service_link.page = page_number
    /\ \A a, b \in 1..Len(origin) :
          a # b => <<origin[a][3], origin[a][4]>> # <<origin[b][3], origin[b][4]>>
    /\ \A a \in 1..Len(origin) : origin[a][3] = origin[a][1]
    /\ (pc = "done" /\ ~hist.stale /\ ~hist.icpt /\ hist.other = "none"
            /\ esd.exit # "IndexError")
         => SiteRecords = {<<origin[a][3], origin[a][4]>> : a \in 1..Len(origin)}

\* C19: get_service_links returns only through a pass that found a link
\* while a list with triggers was shown; with a list of triggers shown it
\* does return; on a search without results it polls for ever, main reaches
\* neither click_next_page nor save_data, and with a detail view left open
\* it never returns either.
C19_PollUntilTrigger ==
    /\ [][(pc \in GslPcs /\ pc' \notin GslPcs \cup {"crashed"})
            => (VisibleLinks # <<>> /\ links' # <<>> /\ gsl_links' = <<>>)]_vars
    /\ [][(pc \in GslPcs /\ view = "detail")
            => (pc' \in {pc, "crashed"} /\ view' = "detail")]_vars
    /\ [](site = NoResults
            => (pc \in {"search", "main_loop", "sp_gsl", "crashed"} /\ saved = <<>>))
    /\ (pc \in GslPcs /\ VisibleLinks # <<>>) ~> (pc \notin GslPcs)

\* A search without results: get_service_links has polled and polls on.
C19_Witness ==
    /\ site = NoResults /\ view = "list" /\ pc = "sp_gsl" /\ spin = 1
    /\ links = <<>> /\ page_number = 1

(* ------------------------------------------------------ supporting lemmas *)

\* What remains of the refuted statements on the runs their code bugs do
\* not touch.

\* The record count holds in fault-free runs in which no detail form
\* raised the IndexError of main.py:64.
Lemma_CountWithoutIndexError ==
    (pc = "done" /\ ~hist.stale /\ ~hist.icpt /\ ~hist.undrawn
        /\ hist.other = "none" /\ esd.exit # "IndexError")
        => Len(saved) = SumSeq(site)

\* An exception raised anywhere but in click_next_page ends the run
\* without a save.
Lemma_ErrorElsewhereCrashes ==
    hist.other \notin {"none", "next"} => pc = "crashed"

\* Without another exception, click_next_page returns True only for a
\* missing control; False is returned only for a clicked control.
Lemma_TrueOnlyAbsentOrError ==
    /\ (hist.ret = "True" /\ hist.other # "next") => ~hist.existed
    /\ hist.ret = "False" => hist.existed

\* A form with unequal cell counts whose surplus data cells all hold
\* images is truncated and returned after one back click.
Lemma_TruncatesWithoutIndexError ==
    (EsdEnded /\ Len(esd.form.labels) # Len(esd.form.cells)
        /\ ~RaisesIndexError(esd.form.labels, esd.form.cells))
        => /\ esd.exit = "return" /\ esd.back = 1 /\ view = "list"
           /\ Cardinality(DOMAIN esd.rec)
                <= Min(Len(esd.form.labels), Len(esd.form.cells))

\* A returned extraction clicked the trigger once and back once and
\* returned the record of the form it opened.
Lemma_ReturnClicksOnce ==
    esd.exit = "return"
        => /\ esd.trig = 1 /\ esd.back = 1
           /\ esd.rec = Zip(HarvestKeys(esd.form),
                            HarvestValues(HarvestKeys(esd.form), esd.form.cells))

\* A restart of scrape_page from the list view (a stale trigger click) is
\* recovered, unless a later failure strikes in the detail view or a list
\* is queried before the site has drawn it in full.
Lemma_StaleInListRecovered ==
    (pc = "sp_except" /\ view = "list")
        ~> (PageScraped \/ hist.other # "none" \/ esd.exit = "IndexError"
                \/ hist.undrawn
                \/ (pc = "sp_except" /\ view = "detail"))

\* The views alternate up to the first exception that leaves
\* extract_service_data with the detail view open: the IndexError of
\* main.py:64.
Lemma_AlternatesWithoutIndexError ==
    /\ pc = "esd_click" => view = "list"
    /\ (pc \in {"sp_for", "sp_gsl_i", "sp_return", "next", "save", "done"}
            /\ esd.exit # "IndexError")
           => view = "list"

\* Each record is scraped once, from the page main's counter stands at, and
\* none is skipped, in the runs in which every list was drawn in full by
\* the time it was queried.
Lemma_EachRecordOnceWhenDrawn ==
    ~hist.undrawn =>
        /\ pc = "esd_click" => service_link.page = page_number
        /\ \A a, b \in 1..Len(origin) :
              a # b => <<origin[a][3], origin[a][4]>> # <<origin[b][3], origin[b][4]>>
        /\ \A a \in 1..Len(origin) : origin[a][3] = origin[a][1]
        /\ (pc = "done" /\ ~hist.stale /\ ~hist.icpt /\ hist.other = "none"
                /\ esd.exit # "IndexError")
             => SiteRecords = {<<origin[a][3], origin[a][4]>> : a \in 1..Len(origin)}

====
